---- MODULE Spec2Model ----
(***************************************************************************)
(* DexScreener boost monitor (src/bot.py): the polling / deduplication     *)
(* loop DexScreenerBot.monitor_boosts, the notification pipeline           *)
(* send_notification (get_token_info, format_number, format_social_links)  *)
(* and the status responder cmd_status.                                    *)
(*                                                                         *)
(* Conventions.                                                            *)
(*  - A JSON object (Python dict) is a TLA+ record; a key is present iff   *)
(*    it is in the DOMAIN; the empty dict {} is the empty function <<>>.   *)
(*  - A JSON array (Python list) is a sequence.                            *)
(*  - A message is the sequence of its lines (the text split at "\n"; the  *)
(*    terminator of the last line is not represented).  The characters of  *)
(*    the source's literals outside ASCII (emoji, bullets) and the Markdown *)
(*    code marks around the address are left out of the lines.             *)
(*  - Time is an integer number of seconds since construction.             *)
(***************************************************************************)
EXTENDS Integers, Sequences, FiniteSets, TLC

VARIABLES
    pc,               \* position of monitor_boosts: "Polling", "Iterating", "Sending", "Idle",
                      \* "Terminated"
    known_boosts,     \* self.known_boosts
    last_check_time,  \* self.last_check_time
    latest_boosts,    \* local latest_boosts of monitor_boosts (after normalisation)
    idx,              \* position of the for loop in latest_boosts
    idle_for,         \* argument of the pending asyncio.sleep, 0 when not sleeping
    now,              \* the wall clock read by datetime.now()
    raw,              \* outcome of the last GET of the feed endpoint
    calls,            \* history: boost_id -> number of send_notification calls
    delivered,        \* history: the boost_ids whose message bot.send_message delivered
    sent,             \* history: the one send_notification call of FormatSpec
    cyc               \* history: what happened in the current cycle

vars == <<pc, known_boosts, last_check_time, latest_boosts, idx, idle_for,
          now, raw, calls, delivered, sent, cyc>>

-----------------------------------------------------------------------------
(* Bounds *)

MaxResp == 2      \* longest feed response (number of items)
MaxCycles == 1    \* the clock stops advancing after this many sleeps (the loop goes on)

(* Program constants *)

CHECK_INTERVAL == 60
Billion == 1000000000
Million == 1000000
Thousand == 1000

-----------------------------------------------------------------------------
(* Python helpers *)

\* the value None, also what an absent optional yields
None == <<>>

\* dict.get(k, default)
Get(d, k, default) == IF k \in DOMAIN d THEN d[k] ELSE default

\* truth value of a dict, a list or None
Truthy(v) == v # <<>>

\* truth value of a str
TruthyStr(s) == s # ""

RECURSIVE Flatten(_)
\* the concatenation of a sequence of sequences
Flatten(ss) == IF ss = <<>> THEN <<>> ELSE Head(ss) \o Flatten(Tail(ss))

-----------------------------------------------------------------------------
(* format_number *)

TwoDigits(n) == IF n < 10 THEN "0" \o ToString(n) ELSE ToString(n)

RECURSIVE Pow2Mod25(_)
\* 2^n modulo 25
Pow2Mod25(n) == IF n = 0 THEN 1 ELSE (2 * Pow2Mod25(n - 1)) % 25

RECURSIVE Log2Floor(_, _)
\* the binary exponent e of the quotient n / d >= 1: 2^e <= n / d < 2^(e+1)
Log2Floor(n, d) == IF n < 2 * d THEN 0 ELSE 1 + Log2Floor(n \div 2, d)

\* The hundredths f"{x:.2f}" prints for the float x = num / div when the exact
\* quotient is q hundredths and a half, i.e. (2q+1)/200 >= 1.  The float is the
\* multiple of 2^(e-52) nearest to the quotient, and the quotient is
\* (2q+1) * 2^(49-e) / 25 such multiples: the remainder modulo 25 tells
\* whether the float is the quotient itself (then the decimal is rounded to the
\* even hundredth), lies below it (q) or above it (q+1).
HalfWay(q) ==
    LET n == 2 * q + 1
        e == Log2Floor(n, 200)
        rem == ((n % 25) * Pow2Mod25(49 - e)) % 25
    IN  IF rem = 0 THEN (IF q % 2 = 0 THEN q ELSE q + 1)
        ELSE IF rem <= 12 THEN q
        ELSE q + 1

\* f"{num / div:.2f}" for a natural num >= div: the decimal of two places
\* nearest to the binary float num / div.
Fixed2(num, div) ==
    IF div = 1 THEN ToString(num) \o ".00"
    ELSE LET unit == div \div 100
             q == num \div unit
             r == num % unit
             h == IF 2 * r > unit THEN q + 1
                  ELSE IF 2 * r < unit THEN q
                  ELSE HalfWay(q)
         IN  ToString(h \div 100) \o "." \o TwoDigits(h % 100)

format_number(num) ==
    IF num >= Billion THEN "$" \o Fixed2(num, Billion) \o "B"
    ELSE IF num >= Million THEN "$" \o Fixed2(num, Million) \o "M"
    ELSE IF num >= Thousand THEN "$" \o Fixed2(num, Thousand) \o "K"
    ELSE "$" \o Fixed2(num, 1)

\* float(s) succeeds; the decimal strings of the input domain
ParsesAsFloat(s) == s \in {"0", "1.5", "0.00001234"}

\* f"{float(s):.8f}" on the decimal strings of the input domain
Float8f(s) ==
    CASE s = "0" -> "0.00000000"
      [] s = "1.5" -> "1.50000000"
      [] s = "0.00001234" -> "0.00001234"

-----------------------------------------------------------------------------
(* get_token_info *)

\* The outcome m of the GET of the pairs endpoint: [ok |-> FALSE] for a
\* timeout, a transport error, a non-2xx status or an unparsable body,
\* [ok |-> TRUE, data |-> <the parsed JSON object>] otherwise.
get_token_info(m) ==
    IF ~m.ok THEN None
    ELSE IF ~("pairs" \in DOMAIN m.data /\ Truthy(m.data.pairs) /\ Len(m.data.pairs) > 0)
         THEN None
    ELSE LET pair == m.data.pairs[1] IN
         IF ~("baseToken" \in DOMAIN pair
                /\ "name" \in DOMAIN pair.baseToken
                /\ "symbol" \in DOMAIN pair.baseToken)
         THEN None    \* KeyError, caught by the except clause
         ELSE [name |-> pair.baseToken.name,
               symbol |-> pair.baseToken.symbol,
               market_cap |-> Get(pair, "marketCap", 0),
               fdv |-> Get(pair, "fdv", 0),
               price_usd |-> Get(pair, "priceUsd", "0"),
               liquidity_usd |-> Get(Get(pair, "liquidity", <<>>), "usd", 0),
               info |-> Get(pair, "info", <<>>)]

-----------------------------------------------------------------------------
(* format_social_links *)

\* str.lower() on the platform names of the input domain
Lower(s) ==
    CASE s = "Twitter" -> "twitter"
      [] s = "Telegram" -> "telegram"
      [] OTHER -> s

\* str.title() on the lower-case platform names of the input domain
Title(s) ==
    CASE s = "medium" -> "Medium"
      [] s = "github" -> "Github"
      [] s = "reddit" -> "Reddit"
      [] s = "discord" -> "Discord"
      [] s = "twitter" -> "Twitter"
      [] s = "telegram" -> "Telegram"
      [] OTHER -> s

\* the lines one website entry appends to links
WebsiteLinks(website) ==
    IF TruthyStr(Get(website, "url", ""))
    THEN << "[Website](" \o website.url \o ")" >>
    ELSE <<>>

\* the lines one social entry appends to links
SocialLinks(social) ==
    LET platform == Lower(Get(social, "platform", ""))
        handle == Get(social, "handle", "")
    IN  IF TruthyStr(platform) /\ TruthyStr(handle)
        THEN IF platform = "twitter"
             THEN << "[Twitter](https://twitter.com/" \o handle \o ")" >>
             ELSE IF platform = "telegram"
             THEN << "[Telegram](https://t.me/" \o handle \o ")" >>
             ELSE IF platform = "discord"
             THEN << "[Discord](" \o handle \o ")" >>
             ELSE << "[" \o Title(platform) \o "](" \o handle \o ")" >>
        ELSE <<>>

NoLinksPlaceholder == "No social links available"

\* the list links built by format_social_links
LinkLines(info) ==
    (IF "websites" \in DOMAIN info /\ Truthy(info.websites)
     THEN Flatten([i \in DOMAIN info.websites |-> WebsiteLinks(info.websites[i])])
     ELSE <<>>)
    \o
    (IF "socials" \in DOMAIN info /\ Truthy(info.socials)
     THEN Flatten([i \in DOMAIN info.socials |-> SocialLinks(info.socials[i])])
     ELSE <<>>)

\* the returned text, as its lines
format_social_links(info) ==
    IF LinkLines(info) # <<>> THEN LinkLines(info) ELSE << NoLinksPlaceholder >>

-----------------------------------------------------------------------------
(* send_notification *)

\* The exception the construction of the message raises, "none" when it
\* raises none.  The f-string evaluates its fields in order: float() of the
\* price first (ValueError), then the boost's amounts (KeyError).
FormatRaises(boost_data, token_info) ==
    IF Truthy(token_info) /\ ~ParsesAsFloat(token_info.price_usd) THEN "ValueError"
    ELSE IF "amount" \notin DOMAIN boost_data THEN "KeyError"
    ELSE IF "totalAmount" \notin DOMAIN boost_data THEN "KeyError"
    ELSE "none"

MetricsHeader == "*Token Metrics:*"
SocialHeader == "*Social Links:*"

\* the message of the branch 'if token_info:'
FullMessage(boost_data, token_info) ==
    << "*NEW TOKEN BOOST DETECTED*",
       "",
       "*Token:* " \o token_info.name \o " (" \o token_info.symbol \o ")",
       "*Chain:* " \o boost_data.chainId,
       "*Address:* " \o boost_data.tokenAddress,
       "",
       MetricsHeader,
       "Market Cap: " \o format_number(token_info.market_cap),
       "FDV: " \o format_number(token_info.fdv),
       "Price: $" \o Float8f(token_info.price_usd),
       "Liquidity: " \o format_number(token_info.liquidity_usd),
       "",
       "*Boost Details:*",
       "Boost Amount: " \o format_number(boost_data.amount),
       "Total Amount: " \o format_number(boost_data.totalAmount) >>
    \o (IF TruthyStr(Get(boost_data, "description", ""))
        THEN << "", "*Description:*", boost_data.description >> ELSE <<>>)
    \o << "", "*Important Links:*" >>
    \o (IF TruthyStr(Get(boost_data, "url", ""))
        THEN << "[DexScreener](" \o boost_data.url \o ")" >> ELSE <<>>)
    \o (IF Truthy(Get(token_info, "info", None))
        THEN << "", SocialHeader >> \o format_social_links(token_info.info)
        ELSE <<>>)

\* the message of the branch 'else:' (token info could not be retrieved)
FallbackMessage(boost_data) ==
    << "*NEW TOKEN BOOST DETECTED*",
       "",
       "*Chain:* " \o boost_data.chainId,
       "*Token Address:* " \o boost_data.tokenAddress,
       "*Boost Amount:* " \o format_number(boost_data.amount),
       "*Total Amount:* " \o format_number(boost_data.totalAmount) >>

Message(boost_data, token_info) ==
    IF Truthy(token_info) THEN FullMessage(boost_data, token_info)
    ELSE FallbackMessage(boost_data)

\* A mutant of SendOutcome: the exception of bot.send_message is not caught.
SendOutcomeUncaught(d) == IF d THEN "delivered" ELSE "raised"

\* The try/except around Bot.send_message; d: the delivery succeeds.
SendOutcome(d) == IF d THEN "delivered" ELSE "logged"

\* send_notification(boost_data) when the pairs endpoint answers m and the
\* delivery succeeds iff d: what the call does.
send_notification(boost_data, m, d) ==
    LET token_info == get_token_info(m)
        exc == FormatRaises(boost_data, token_info)
    IN  IF exc # "none"
        THEN [result |-> "raised", exc |-> exc, message |-> <<>>]
        ELSE [result |-> SendOutcome(d),
              exc |-> IF SendOutcome(d) = "raised" THEN "TelegramError" ELSE "none",
              message |-> Message(boost_data, token_info)]

-----------------------------------------------------------------------------
(* Inputs: what the two endpoints and the notifier can answer *)

B1 == [chainId |-> "sol", tokenAddress |-> "A", amount |-> 100, totalAmount |-> 500]
\* the same boost with other amounts, a description and a url
B1b == [chainId |-> "sol", tokenAddress |-> "A", amount |-> 1005, totalAmount |-> 2500000,
        description |-> "promo", url |-> "https://dexscreener.com/sol/A"]
B2 == [chainId |-> "eth_x", tokenAddress |-> "B", amount |-> 999, totalAmount |-> 999,
       description |-> ""]
\* no chainId: the identity key cannot be computed
BNoChain == [tokenAddress |-> "A", amount |-> 100, totalAmount |-> 500]
\* no amount: the identity key is computed, the message cannot be built
BNoAmount == [chainId |-> "bsc", tokenAddress |-> "C"]

Boosts == {B1, B1b, B2, BNoChain, BNoAmount}

Base == [name |-> "Token", symbol |-> "TKN"]
Site == [url |-> "https://tok.io"]
SiteNoUrl == [label |-> "Docs"]
Tw == [platform |-> "Twitter", handle |-> "tok"]
Tg == [platform |-> "telegram", handle |-> "tokchat"]
Dc == [platform |-> "discord", handle |-> "https://discord.gg/tok"]
Rd == [platform |-> "reddit", handle |-> "https://reddit.com/r/tok"]
NoHandle == [platform |-> "twitter", handle |-> ""]
NoPlatform == [handle |-> "tok"]

Pairs ==
    { [baseToken |-> Base],
      [baseToken |-> Base, marketCap |-> 1005000, fdv |-> 2675, priceUsd |-> "1.5",
       liquidity |-> [usd |-> 1125]],
      [baseToken |-> Base, priceUsd |-> "0.00001234", liquidity |-> <<>>, info |-> <<>>],
      [baseToken |-> Base, info |-> [websites |-> <<>>, socials |-> <<>>]],
      [baseToken |-> Base, info |-> [websites |-> <<>>]],
      [baseToken |-> Base, info |-> [imageUrl |-> "https://tok.io/logo.png"]],
      [baseToken |-> Base, info |-> [websites |-> <<SiteNoUrl>>, socials |-> <<NoHandle, NoPlatform>>]],
      [baseToken |-> Base, info |-> [websites |-> <<Site>>]],
      [baseToken |-> Base, info |-> [socials |-> <<Tw, Tg>>]],
      [baseToken |-> Base, info |-> [websites |-> <<SiteNoUrl, Site>>, socials |-> <<Dc, NoHandle, Rd>>]],
      [baseToken |-> Base, priceUsd |-> "n/a"],
      [baseToken |-> [name |-> "Token"]] }

\* the outcomes of the GET of the pairs endpoint
MetricsOutcomes ==
    { [ok |-> FALSE], [ok |-> TRUE, data |-> <<>>], [ok |-> TRUE, data |-> [pairs |-> <<>>]] }
    \cup { [ok |-> TRUE, data |-> [pairs |-> <<p>>]] : p \in Pairs }
    \cup { [ok |-> TRUE, data |-> [pairs |-> << [baseToken |-> Base, info |-> [websites |-> <<Site>>]],
                                                [baseToken |-> Base, priceUsd |-> "n/a"] >>]] }

\* the outcomes of the GET of the feed endpoint: a failure (timeout, transport
\* error, non-2xx status, unparsable body) or the parsed JSON body, a list of
\* at most MaxResp items or a single object
Lists == UNION { [1..n -> Boosts] : n \in 0..MaxResp }

FeedOutcomes ==
    { [ok |-> FALSE] }
    \cup { [ok |-> TRUE, body |-> [type |-> "list", val |-> l]] : l \in Lists }
    \cup { [ok |-> TRUE, body |-> [type |-> "object", val |-> b]] : b \in Boosts }

-----------------------------------------------------------------------------
(* monitor_boosts *)

get_latest_boosts(r) ==
    IF r.ok THEN r.body ELSE [type |-> "list", val |-> <<>>]

\* if not isinstance(latest_boosts, list): latest_boosts = [latest_boosts]
Normalise(v) == IF v.type = "list" THEN v.val ELSE << v.val >>

\* boost['chainId'] and boost['tokenAddress'] raise no KeyError
HasIdFields(boost) == "chainId" \in DOMAIN boost /\ "tokenAddress" \in DOMAIN boost

boost_id(boost) == boost.chainId \o "_" \o boost.tokenAddress

Keys == { boost_id(b) : b \in { x \in Boosts : HasIdFields(x) } }

\* A mutant of AddKnown: the set is replaced by the new key.
AddKnownReplace(known, id) == {id}

\* A mutant of AddKnown: the key is not recorded.
AddKnownNoop(known, id) == known

\* self.known_boosts.add(boost_id)
AddKnown(known, id) == known \cup {id}

\* A mutant of CycleEndTime: the timestamp is recorded after the try
\* statement, whether or not the cycle raised.
CycleEndTimeAlways(exc, lct, t) == t

\* A mutant of CycleEndTime: the timestamp is not recorded.
CycleEndTimeStale(exc, lct, t) == lct

\* last_check_time at the end of a cycle's try statement: the assignment of
\* datetime.now() is the last statement of the try body, so a cycle that raised
\* exc has skipped it.
CycleEndTime(exc, lct, t) == IF exc = "none" THEN t ELSE lct

\* A mutant of AfterRaise: the handler catches KeyError only.
AfterRaiseNarrow(exc) == IF exc = "KeyError" THEN "Idle" ELSE "Terminated"

\* Where monitor_boosts goes when its try body raises exc: every exception of
\* the model is an Exception, which the except clause catches and logs.
AfterRaise(exc) ==
    IF exc \in {"KeyError", "ValueError", "TelegramError"} THEN "Idle" ELSE "Terminated"

\* the argument of the asyncio.sleep that follows the try statement
SleepArg(next_pc) == IF next_pc = "Idle" THEN CHECK_INTERVAL ELSE 0

\* the reply of cmd_status
cmd_status ==
    [last_check |-> last_check_time,
     known |-> Cardinality(known_boosts),
     interval |-> CHECK_INTERVAL]

MaxClock == MaxCycles * CHECK_INTERVAL

\* the record of a cycle that has not polled yet
FreshCycle ==
    [start_known |-> known_boosts,
     start_lct |-> last_check_time,
     poll_ok |-> FALSE,
     repeat |-> FALSE,
     raised |-> "none",
     send_failed |-> FALSE,
     sent |-> <<>>]

\* the state after __init__, before monitor_boosts polls
InitLoop ==
    /\ pc = "Polling"
    /\ known_boosts = {}
    /\ last_check_time = 0
    /\ latest_boosts = <<>>
    /\ idx = 1
    /\ idle_for = 0
    /\ now = 0
    /\ raw = None
    /\ calls = [k \in Keys |-> 0]
    /\ delivered = {}
    /\ cyc = [start_known |-> {}, start_lct |-> 0, poll_ok |-> FALSE, repeat |-> FALSE,
              raised |-> "none", send_failed |-> FALSE, sent |-> <<>>]

Init == InitLoop /\ sent = None

\* latest_boosts = self.get_latest_boosts(), normalised
Poll ==
    /\ pc = "Polling"
    /\ \E r \in FeedOutcomes :
        /\ raw' = r
        /\ latest_boosts' = Normalise(get_latest_boosts(r))
        /\ cyc' = [cyc EXCEPT !.poll_ok = r.ok,
                              !.repeat = (raw # None /\ raw.ok /\ r = raw)]
    /\ idx' = 1
    /\ pc' = "Iterating"
    /\ UNCHANGED <<known_boosts, last_check_time, idle_for, now, calls, delivered, sent>>

\* The try body raised exc: the except clause, then asyncio.sleep.
Raise(exc) ==
    /\ pc' = AfterRaise(exc)
    /\ idle_for' = SleepArg(AfterRaise(exc))
    /\ last_check_time' = CycleEndTime(exc, last_check_time, now)

\* the loop body on an item whose identity key cannot be computed
StepNoKey ==
    /\ pc = "Iterating"
    /\ idx <= Len(latest_boosts)
    /\ ~HasIdFields(latest_boosts[idx])
    /\ Raise("KeyError")
    /\ cyc' = [cyc EXCEPT !.raised = "KeyError"]
    /\ UNCHANGED <<known_boosts, latest_boosts, idx, now, raw, calls, delivered, sent>>

\* the loop body on an item whose key is in known_boosts
StepSeen ==
    /\ pc = "Iterating"
    /\ idx <= Len(latest_boosts)
    /\ HasIdFields(latest_boosts[idx])
    /\ boost_id(latest_boosts[idx]) \in known_boosts
    /\ idx' = idx + 1
    /\ UNCHANGED <<pc, known_boosts, last_check_time, latest_boosts, idle_for, now, raw,
                   calls, delivered, sent, cyc>>

\* The loop body on an item whose key is not in known_boosts, up to the first
\* suspension of send_notification: the key is added, send_notification is
\* called, fetches the metrics (a blocking GET) and builds the message; it
\* either raises there or suspends in the await of Bot.send_message.
StepNew ==
    /\ pc = "Iterating"
    /\ idx <= Len(latest_boosts)
    /\ HasIdFields(latest_boosts[idx])
    /\ boost_id(latest_boosts[idx]) \notin known_boosts
    /\ \E m \in MetricsOutcomes :
        LET boost == latest_boosts[idx]
            id == boost_id(boost)
            exc == FormatRaises(boost, get_token_info(m))
        IN  /\ known_boosts' = AddKnown(known_boosts, id)
            /\ calls' = [calls EXCEPT ![id] = @ + 1]
            /\ cyc' = [cyc EXCEPT !.sent = Append(@, id), !.raised = exc]
            /\ IF exc # "none"
               THEN Raise(exc)
               ELSE /\ pc' = "Sending"
                    /\ UNCHANGED <<idle_for, last_check_time>>
    /\ UNCHANGED <<latest_boosts, idx, now, raw, delivered, sent>>

\* The await of Bot.send_message returns or raises: the try/except of
\* send_notification, then the for loop goes on to the next item.
Deliver ==
    /\ pc = "Sending"
    /\ \E d \in BOOLEAN :
        LET id == boost_id(latest_boosts[idx])
            out == SendOutcome(d)
        IN  /\ delivered' = IF out = "delivered" THEN delivered \cup {id} ELSE delivered
            /\ cyc' = [cyc EXCEPT !.send_failed = @ \/ out # "delivered",
                                  !.raised = IF out = "raised" THEN "TelegramError" ELSE @]
            /\ IF out = "raised"
               THEN Raise("TelegramError") /\ idx' = idx
               ELSE /\ pc' = "Iterating"
                    /\ idx' = idx + 1
                    /\ UNCHANGED <<idle_for, last_check_time>>
    /\ UNCHANGED <<known_boosts, latest_boosts, now, raw, calls, sent>>

\* the for loop is exhausted: self.last_check_time = datetime.now(), then
\* asyncio.sleep(CHECK_INTERVAL)
EndLoop ==
    /\ pc = "Iterating"
    /\ idx > Len(latest_boosts)
    /\ last_check_time' = CycleEndTime("none", last_check_time, now)
    /\ pc' = "Idle"
    /\ idle_for' = SleepArg("Idle")
    /\ UNCHANGED <<known_boosts, latest_boosts, idx, now, raw, calls, delivered, sent, cyc>>

\* asyncio.sleep returns after idle_for seconds (the clock saturates at MaxClock)
Sleep ==
    /\ pc = "Idle"
    /\ now' = IF now + idle_for <= MaxClock THEN now + idle_for ELSE now
    /\ pc' = "Polling"
    /\ idle_for' = 0
    /\ cyc' = FreshCycle
    /\ UNCHANGED <<known_boosts, last_check_time, latest_boosts, idx, raw, calls, delivered,
                   sent>>

\* /status is answered while monitor_boosts is suspended in an await (of
\* Bot.send_message or of asyncio.sleep): the handler reads the state and
\* replies cmd_status; it assigns nothing.
Status ==
    /\ pc \in {"Sending", "Idle"}
    /\ UNCHANGED vars

Loop == Poll \/ StepNoKey \/ StepSeen \/ StepNew \/ Deliver \/ EndLoop \/ Sleep

Next == Poll \/ StepNoKey \/ StepSeen \/ StepNew \/ Deliver \/ EndLoop \/ Sleep \/ Status

Spec == Init /\ [][Next]_vars

\* Every call of the loop returns: the GETs have a timeout of 10 seconds and
\* asyncio.sleep returns after its interval.
FairSpec == Spec /\ WF_vars(Loop)

-----------------------------------------------------------------------------
(* send_notification alone: one call on every boost whose key is computed,   *)
(* every answer of the pairs endpoint and both outcomes of the delivery      *)

FormatInit ==
    /\ InitLoop
    /\ sent \in [boost : {b \in Boosts : HasIdFields(b)}, m : MetricsOutcomes,
                 d : BOOLEAN, out : {None}]

Notify ==
    /\ sent # None
    /\ sent.out = None
    /\ sent' = [sent EXCEPT !.out = send_notification(sent.boost, sent.m, sent.d)]
    /\ UNCHANGED <<pc, known_boosts, last_check_time, latest_boosts, idx, idle_for, now, raw,
                   calls, delivered, cyc>>

FormatNext == Notify

FormatSpec == FormatInit /\ [][FormatNext]_vars

-----------------------------------------------------------------------------
(* Properties *)

Range(q) == { q[i] : i \in DOMAIN q }

\* the keys for which send_notification has been called
Invoked == { k \in Keys : calls[k] > 0 }

\* every item of the response has a key, and the key is in set
AllIn(set) ==
    \A i \in DOMAIN latest_boosts :
        HasIdFields(latest_boosts[i]) /\ boost_id(latest_boosts[i]) \in set

HasLine(msg, line) == \E i \in DOMAIN msg : msg[i] = line

\* the lines of msg after its line header
BlockAfter(msg, header) ==
    LET i == CHOOSE j \in DOMAIN msg : msg[j] = header
    IN  SubSeq(msg, i + 1, Len(msg))

\* no website entry with a url and no social entry with platform and handle
NoLinkExists(info) ==
    /\ \A i \in DOMAIN Get(info, "websites", <<>>) :
          ~TruthyStr(Get(info.websites[i], "url", ""))
    /\ \A i \in DOMAIN Get(info, "socials", <<>>) :
          ~(TruthyStr(Get(info.socials[i], "platform", ""))
            /\ TruthyStr(Get(info.socials[i], "handle", "")))

\* C1 (as claimed): send_notification is called at most once for a key, and
\* a cycle that is fed the same poll response as the cycle before it calls
\* send_notification for no key (the notifications are in the first cycle only).
C1_SameResponseNotifiesOnce ==
    /\ \A k \in Keys : calls[k] <= 1
    /\ (pc = "Idle" /\ cyc.repeat) => cyc.sent = <<>>

\* C2 (as claimed): a cycle whose poll failed leaves known_boosts and
\* last_check_time as they were at its start, calls send_notification for no
\* key and ends in the normal idle wait.
C2_FailedPollChangesNothing ==
    (pc = "Idle" /\ ~cyc.poll_ok) =>
        /\ known_boosts = cyc.start_known
        /\ last_check_time = cyc.start_lct
        /\ cyc.sent = <<>>
        /\ idle_for = CHECK_INTERVAL

\* What the code does in a cycle whose poll failed: known_boosts is kept,
\* send_notification is called for no key, the cycle ends in the normal idle
\* wait, and last_check_time is set to the current time.
FailedPollFrame ==
    (pc = "Idle" /\ ~cyc.poll_ok) =>
        /\ known_boosts = cyc.start_known
        /\ cyc.sent = <<>>
        /\ idle_for = CHECK_INTERVAL
        /\ cyc.raised = "none"
        /\ last_check_time = now

\* C3 (as claimed): when the processing of one item of the response has failed,
\* every later item of that response whose key was not in known_boosts has been
\* inserted and handed to send_notification by the end of the cycle.
C3_LaterEventsStillProcessed ==
    (pc = "Idle" /\ cyc.raised # "none") =>
        \A i \in (idx + 1)..Len(latest_boosts) :
            HasIdFields(latest_boosts[i]) =>
                \/ boost_id(latest_boosts[i]) \in cyc.start_known
                \/ /\ boost_id(latest_boosts[i]) \in known_boosts
                   /\ boost_id(latest_boosts[i]) \in Range(cyc.sent)

\* C4: a cycle in which an exception reached the handler of the loop keeps the
\* last_check_time it started with; last_check_time differs from its value at
\* the start of the cycle only when the cycle has completed without exception.
C4_TimestampKeptOnException ==
    /\ cyc.raised # "none" => (pc = "Idle" /\ last_check_time = cyc.start_lct)
    /\ last_check_time # cyc.start_lct => (pc = "Idle" /\ cyc.raised = "none")

C4_Witness ==
    /\ pc = "Idle"
    /\ cyc.raised # "none"
    /\ cyc.sent # <<>>
    /\ now > cyc.start_lct

\* C5: the loop never terminates; every cycle, whatever happened in it, enters
\* Idle from the iteration with the fixed interval CHECK_INTERVAL and leaves Idle
\* for Polling only, and Polling recurs infinitely often.
C5_LoopNeverEnds ==
    /\ []<>(pc = "Polling")
    /\ [](pc # "Terminated")
    /\ [](pc = "Idle" <=> idle_for = CHECK_INTERVAL)
    /\ [][/\ (pc # "Idle" /\ pc' = "Idle") => pc = "Iterating"
          /\ (pc = "Idle" /\ pc' # "Idle") => pc' = "Polling"
          /\ (pc = "Polling" /\ pc' # "Polling") => pc' = "Iterating"]_vars

C5_Witness ==
    /\ pc = "Idle"
    /\ cyc.raised = "ValueError"
    /\ cyc.send_failed
    /\ now > 0
    /\ idle_for = CHECK_INTERVAL

\* C6: a cycle whose poll succeeded and that raised no exception sets
\* last_check_time to the current time; when every item of its response was
\* already in known_boosts (or the response is empty) it calls send_notification
\* for no key and leaves the size of known_boosts unchanged.
C6_SuccessfulPollAdvances ==
    (pc = "Idle" /\ cyc.poll_ok /\ cyc.raised = "none") =>
        /\ last_check_time = now
        /\ AllIn(cyc.start_known) =>
              /\ cyc.sent = <<>>
              /\ Cardinality(known_boosts) = Cardinality(cyc.start_known)

C6_Witness ==
    /\ pc = "Idle"
    /\ cyc.poll_ok
    /\ cyc.raised = "none"
    /\ latest_boosts # <<>>
    /\ AllIn(cyc.start_known)
    /\ cyc.repeat
    /\ cyc.start_lct < now
    /\ last_check_time = now

\* C7: a failed delivery raises nothing into the loop; a cycle with a failed
\* delivery and no other failure has processed every item of its response,
\* records last_check_time and goes on to Idle.
C7_DeliveryFailureNotFatal ==
    /\ cyc.raised # "TelegramError"
    /\ pc # "Terminated"
    /\ (cyc.send_failed /\ cyc.raised = "none") => pc \in {"Iterating", "Sending", "Idle"}
    /\ (pc = "Idle" /\ cyc.send_failed /\ cyc.raised \in {"none", "TelegramError"}) =>
          /\ AllIn(known_boosts)
          /\ AllIn(Invoked)
          /\ last_check_time = now
          /\ idle_for = CHECK_INTERVAL

\* the delivery for the first new item failed and a later item was notified
C7_Witness ==
    /\ pc = "Idle"
    /\ cyc.raised = "none"
    /\ Len(cyc.sent) >= 2
    /\ cyc.sent[1] \notin delivered
    /\ cyc.sent[2] \in delivered
    /\ now > 0
    /\ last_check_time = now

\* C8: every step leaves known_boosts a superset of what it was, and the count
\* cmd_status reports does not decrease.
C8_SeenSetAppendOnly ==
    [][/\ known_boosts \subseteq known_boosts'
       /\ cmd_status'.known >= cmd_status.known]_vars

\* known_boosts has grown in a cycle that was abandoned by an exception, after
\* a cycle whose poll failed
C8_Witness ==
    /\ pc = "Idle"
    /\ cyc.raised # "none"
    /\ cyc.start_known # {}
    /\ cyc.start_known # known_boosts
    /\ cyc.send_failed

\* C9 (as claimed): a message built with metrics present and no link has the
\* Social Links block, which consists of the placeholder; a message built with
\* metrics absent has neither a Token Metrics nor a Social Links section.
C9_NoLinksGivesPlaceholder ==
    (sent # None /\ sent.out # None /\ sent.out.result # "raised") =>
        LET token_info == get_token_info(sent.m)
            msg == sent.out.message
        IN  /\ (Truthy(token_info) /\ NoLinkExists(token_info.info)) =>
                  /\ HasLine(msg, SocialHeader)
                  /\ BlockAfter(msg, SocialHeader) = << NoLinksPlaceholder >>
            /\ ~Truthy(token_info) =>
                  /\ ~HasLine(msg, MetricsHeader)
                  /\ ~HasLine(msg, SocialHeader)

\* What the code does: with metrics present the Social Links block is there
\* iff the links info is a non-empty object, and consists of the placeholder
\* when that object holds no link; with metrics absent the message has neither
\* section.
SocialBlockByInfo ==
    (sent # None /\ sent.out # None /\ sent.out.result # "raised") =>
        LET token_info == get_token_info(sent.m)
            msg == sent.out.message
        IN  /\ Truthy(token_info) =>
                  /\ HasLine(msg, MetricsHeader)
                  /\ HasLine(msg, SocialHeader) <=> Truthy(token_info.info)
                  /\ (Truthy(token_info.info) /\ NoLinkExists(token_info.info)) =>
                        BlockAfter(msg, SocialHeader) = << NoLinksPlaceholder >>
            /\ ~Truthy(token_info) =>
                  /\ ~HasLine(msg, MetricsHeader)
                  /\ ~HasLine(msg, SocialHeader)

\* C10: send_notification is called at most once for a key, whether or not the
\* call delivered; a key for which it has been called stays in known_boosts
\* (while its delivery is pending the key is already there), and at every Idle
\* state the keys for which it has been called are the keys of known_boosts.
C10_NoRedelivery ==
    /\ \A k \in Keys : calls[k] <= 1
    /\ delivered \subseteq Invoked
    /\ Invoked \subseteq known_boosts
    /\ pc = "Sending" => boost_id(latest_boosts[idx]) \in (known_boosts \cap Invoked) \ delivered
    /\ pc = "Idle" => Invoked = known_boosts

\* a key whose only call did not deliver is presented again by a later cycle,
\* which has passed it over
C10_Witness ==
    /\ pc = "Idle"
    /\ cyc.raised = "none"
    /\ cyc.sent = <<>>
    /\ \E i \in DOMAIN latest_boosts :
          /\ HasIdFields(latest_boosts[i])
          /\ boost_id(latest_boosts[i]) \in cyc.start_known \ delivered
          /\ calls[boost_id(latest_boosts[i])] = 1

=============================================================================
